---- MODULE Spec2Model ----
(***************************************************************************)
(* Model of ramalama/compose.py: the Compose generator that renders a      *)
(* docker-compose.yaml manifest from a serve configuration.                *)
(*                                                                         *)
(* Text representation.  A Python str is modelled as a sequence of tokens. *)
(* A token is either one of the single characters the code (or the library *)
(* functions it calls) inspects:                                           *)
(*     " "  "\n"  ":"  "="  "'"  "\""  "/"                                 *)
(* or a "word": a non-empty run of characters none of which is one of      *)
(* those (words never contain white space or a line break).  String        *)
(* concatenation is \o.  The image reference is kept character by          *)
(* character, because the code searches it for a substring.                *)
(*                                                                         *)
(* Optional values: None is <<>>, a present value v is <<v>>.              *)
(***************************************************************************)
EXTENDS Integers, Sequences, FiniteSets, TLC

VARIABLES
    self,               \* the Compose instance (fields set by __init__)
    fs,                 \* host filesystem: the set of paths that exist
    environ,            \* host accelerator environment (ordered mapping)
    pc,                 \* position inside generate()
    volumes_string, ports_string, environment_string,
    devices_string, gpu_deploy_string, command_string,   \* locals of generate()
    stdout,             \* lines printed so far by the current invocation
    ret,                \* value returned by generate(): None or <<PlainFile>>
    first,              \* first manifest ever returned: None or <<[self, content]>>
    calls               \* number of invocations of generate() so far

vars == <<self, fs, environ, pc, volumes_string, ports_string, environment_string,
          devices_string, gpu_deploy_string, command_string, stdout, ret, first, calls>>

locals == <<volumes_string, ports_string, environment_string,
            devices_string, gpu_deploy_string, command_string>>

----------------------------------------------------------------------------
(* Python built-ins used by the code *)

None == <<>>
Some(v) == <<v>>

NL == "\n"
SP == " "

\* n spaces
Sp(n) == [i \in 1..n |-> SP]

\* bool(x) for an Optional[str]: None and "" are falsy
Truthy(o) == o # None /\ o[1] # <<>>

\* str.isspace() on one character
IsSpace(c) == c \in {SP, NL, "\t"}

\* s.startswith(p)
startswith(s, p) == Len(s) >= Len(p) /\ SubSeq(s, 1, Len(p)) = p

\* s.removeprefix(p)
removeprefix(s, p) == IF startswith(s, p) THEN SubSeq(s, Len(p) + 1, Len(s)) ELSE s

\* sub in s
Contains(s, sub) == \E i \in 0..(Len(s) - Len(sub)) : SubSeq(s, i + 1, i + Len(sub)) = sub

\* s.find(c) for a single character, 1-based, 0 if absent
Find(s, c) == IF \E i \in 1..Len(s) : s[i] = c
              THEN CHOOSE i \in 1..Len(s) : s[i] = c /\ \A j \in 1..(i - 1) : s[j] # c
              ELSE 0

\* s.split(sep, maxsplit) for a single-character separator
RECURSIVE split(_, _, _)
split(s, sep, maxsplit) ==
    IF maxsplit = 0 \/ Find(s, sep) = 0
    THEN <<s>>
    ELSE <<SubSeq(s, 1, Find(s, sep) - 1)>>
         \o split(SubSeq(s, Find(s, sep) + 1, Len(s)), sep, maxsplit - 1)

\* s.splitlines()
RECURSIVE splitlines(_)
splitlines(s) ==
    IF s = <<>> THEN <<>>
    ELSE IF Find(s, NL) = 0 THEN <<s>>
    ELSE <<SubSeq(s, 1, Find(s, NL) - 1)>> \o splitlines(SubSeq(s, Find(s, NL) + 1, Len(s)))

\* s.strip()
strip(s) ==
    IF \A i \in 1..Len(s) : IsSpace(s[i]) THEN <<>>
    ELSE LET lo == CHOOSE i \in 1..Len(s) : ~IsSpace(s[i]) /\ \A j \in 1..(i - 1) : IsSpace(s[j])
             hi == CHOOSE i \in 1..Len(s) : ~IsSpace(s[i]) /\ \A j \in (i + 1)..Len(s) : IsSpace(s[j])
         IN  SubSeq(s, lo, hi)

\* sep.join(parts)
RECURSIVE join(_, _)
join(sep, parts) ==
    IF parts = <<>> THEN <<>>
    ELSE IF Len(parts) = 1 THEN parts[1]
    ELSE parts[1] \o sep \o join(sep, Tail(parts))

\* dict: an insertion-ordered sequence of <<key, value>> pairs, keys unique
HasKey(d, k) == \E i \in 1..Len(d) : d[i][1] = k

\* faulty variant: d[k] = v always adds a new entry
DictSet_append(d, k, v) == Append(d, <<k, v>>)

\* d[k] = v
DictSet(d, k, v) ==
    IF HasKey(d, k)
    THEN [i \in 1..Len(d) |-> IF d[i][1] = k THEN <<k, v>> ELSE d[i]]
    ELSE Append(d, <<k, v>>)

----------------------------------------------------------------------------
(* shlex (Python standard library), POSIX mode *)

\* characters outside [\w@%+=:,./-]: shlex.quote must quote a string containing one
UnsafeChars == {SP, NL, "\t", "'", "\"", "\\", "$", ";"}

\* s.replace("'", "'\"'\"'")
RECURSIVE replace_quote(_)
replace_quote(s) ==
    IF s = <<>> THEN <<>>
    ELSE (IF Head(s) = "'" THEN <<"'", "\"", "'", "\"", "'">> ELSE <<Head(s)>>)
         \o replace_quote(Tail(s))

\* shlex.quote(s)
shlex_quote(s) ==
    IF s = <<>> THEN <<"'", "'">>
    ELSE IF \A i \in 1..Len(s) : s[i] \notin UnsafeChars THEN s
    ELSE <<"'">> \o replace_quote(s) \o <<"'">>

\* shlex.join(args)
RECURSIVE shlex_join(_)
shlex_join(args) ==
    IF args = <<>> THEN <<>>
    ELSE IF Len(args) = 1 THEN shlex_quote(args[1])
    ELSE shlex_quote(args[1]) \o <<SP>> \o shlex_join(Tail(args))

\* shlex.shlex.read_token, iterated to the end of the input (whitespace_split,
\* no commenters).  state: "ws" between tokens, "a" inside a word, "'" or "\""
\* inside quotes, "\\" after an escape character.  Result: [ok, tokens];
\* ok is FALSE where shlex raises ValueError (no closing quotation, no
\* escaped character).
RECURSIVE shlex_lex(_, _, _, _, _, _, _)
shlex_lex(s, i, state, escapedstate, token, quoted, out) ==
    IF i > Len(s)
    THEN IF state \in {"'", "\"", "\\"} THEN [ok |-> FALSE, tokens |-> out]
         ELSE IF state = "a" /\ (token # <<>> \/ quoted)
              THEN [ok |-> TRUE, tokens |-> Append(out, token)]
              ELSE [ok |-> TRUE, tokens |-> out]
    ELSE LET c == s[i] IN
         IF state = "ws"
         THEN IF IsSpace(c) THEN shlex_lex(s, i + 1, "ws", escapedstate, <<>>, FALSE, out)
              ELSE IF c = "\\" THEN shlex_lex(s, i + 1, "\\", "a", <<>>, FALSE, out)
              ELSE IF c \in {"'", "\""} THEN shlex_lex(s, i + 1, c, escapedstate, <<>>, TRUE, out)
              ELSE shlex_lex(s, i + 1, "a", escapedstate, <<c>>, FALSE, out)
         ELSE IF state \in {"'", "\""}
         THEN IF c = state THEN shlex_lex(s, i + 1, "a", escapedstate, token, TRUE, out)
              ELSE IF c = "\\" /\ state = "\""
                   THEN shlex_lex(s, i + 1, "\\", state, token, TRUE, out)
              ELSE shlex_lex(s, i + 1, state, escapedstate, Append(token, c), TRUE, out)
         ELSE IF state = "\\"
         THEN shlex_lex(s, i + 1, escapedstate, escapedstate,
                        (IF escapedstate \in {"'", "\""} /\ c # "\\" /\ c # escapedstate
                         THEN Append(token, "\\") ELSE token) \o <<c>>,
                        quoted, out)
         ELSE \* state = "a"
              IF IsSpace(c)
              THEN shlex_lex(s, i + 1, "ws", escapedstate, <<>>, FALSE,
                             IF token # <<>> \/ quoted THEN Append(out, token) ELSE out)
              ELSE IF c \in {"'", "\""} THEN shlex_lex(s, i + 1, c, escapedstate, token, TRUE, out)
              ELSE IF c = "\\" THEN shlex_lex(s, i + 1, "\\", "a", token, quoted, out)
              ELSE shlex_lex(s, i + 1, "a", escapedstate, Append(token, c), quoted, out)

\* shlex.split(s)
shlex_split(s) == shlex_lex(s, 1, "ws", "a", <<>>, FALSE, <<>>)

----------------------------------------------------------------------------
(* Collaborators imported from ramalama.common / ramalama.version /       *)
(* ramalama.file                                                          *)

\* RAG_DIR: the fixed in-container directory of the retrieval corpus
RAG_DIR == <<"/", "rag">>

\* version(): the generator's version string
version == <<"0.12.1">>

\* get_accel_env_vars(): a new mapping holding the host's accelerator variables
get_accel_env_vars(host_env) == host_env

\* os.path.exists(path)
exists(files, path) == path \in files

\* PlainFile(file_name) with its content assigned
PlainFile(file_name, content) == [filename |-> file_name, content |-> content]

----------------------------------------------------------------------------
(* class Compose *)

OCI_URI == <<"oci", ":", "/", "/">>
OCI_TAG == <<"oci", ":">>
CUDA == <<"c", "u", "d", "a">>
DEV_DRI == <<"/", "dev", "/", "dri">>
DEV_KFD == <<"/", "dev", "/", "kfd">>
DEV_ACCEL == <<"/", "dev", "/", "accel">>

\* Compose.__init__; the path pairs are Optional[(src, dest)], args is the
\* record [name, image, rag, port, env] (an attribute that is None stands
\* also for a missing attribute: the code reads them with getattr(.., None))
Compose(model_name, model_paths, chat_template_paths, mmproj_paths, args, exec_args) ==
    [src_model_path          |-> removeprefix(model_paths[1], OCI_URI),
     dest_model_path         |-> model_paths[2],
     src_chat_template_path  |-> IF chat_template_paths # None THEN chat_template_paths[1][1] ELSE <<>>,
     dest_chat_template_path |-> IF chat_template_paths # None THEN chat_template_paths[1][2] ELSE <<>>,
     src_mmproj_path         |-> IF mmproj_paths # None THEN mmproj_paths[1][1] ELSE <<>>,
     dest_mmproj_path        |-> IF mmproj_paths # None THEN mmproj_paths[1][2] ELSE <<>>,
     model_name              |-> model_name,
     name                    |-> IF Truthy(args.name) THEN args.name[1]
                                 ELSE <<"ramalama-">> \o model_name,
     args                    |-> args,
     exec_args               |-> exec_args,
     image                   |-> args.image]

\* one short-form list entry: \n      - "<src>:<dest>:ro"
bind_entry(src, dest) ==
    <<NL>> \o Sp(6) \o <<"-", SP, "\"">> \o src \o <<":">> \o dest \o <<":", "ro", "\"">>

_gen_model_volume(s) == bind_entry(s.src_model_path, s.dest_model_path)

\* faulty variant: the host path test comes before the "oci:" test
_gen_rag_volume_pathfirst(s, files) ==
    LET rag_source == s.args.rag[1] IN
    IF exists(files, rag_source)
    THEN bind_entry(rag_source, RAG_DIR)
    ELSE IF startswith(rag_source, OCI_TAG)
    THEN <<NL>> \o Sp(6) \o <<"-", SP, "type", ":", SP, "image">>
         \o <<NL>> \o Sp(8) \o <<"source", ":", SP>> \o removeprefix(rag_source, OCI_TAG)
         \o <<NL>> \o Sp(8) \o <<"target", ":", SP>> \o RAG_DIR
         \o <<NL>> \o Sp(8) \o <<"image", ":">>
         \o <<NL>> \o Sp(10) \o <<"readonly", ":", SP, "true">>
    ELSE <<>>

_gen_rag_volume(s, files) ==
    LET rag_source == s.args.rag[1] IN
    IF startswith(rag_source, OCI_TAG)
    THEN <<NL>> \o Sp(6) \o <<"-", SP, "type", ":", SP, "image">>
         \o <<NL>> \o Sp(8) \o <<"source", ":", SP>> \o removeprefix(rag_source, OCI_TAG)
         \o <<NL>> \o Sp(8) \o <<"target", ":", SP>> \o RAG_DIR
         \o <<NL>> \o Sp(8) \o <<"image", ":">>
         \o <<NL>> \o Sp(10) \o <<"readonly", ":", SP, "true">>
    ELSE IF exists(files, rag_source)
    THEN bind_entry(rag_source, RAG_DIR)
    ELSE <<>>

_gen_chat_template_volume(s) == bind_entry(s.src_chat_template_path, s.dest_chat_template_path)

_gen_mmproj_volume(s) == bind_entry(s.src_mmproj_path, s.dest_mmproj_path)

\* faulty variant: the chat template is mounted without the existence test
_gen_volumes_nocheck(s, files) ==
    Sp(4) \o <<"volumes", ":">>
    \o _gen_model_volume(s)
    \o (IF Truthy(s.args.rag) THEN _gen_rag_volume(s, files) ELSE <<>>)
    \o (IF s.src_chat_template_path # <<>> THEN _gen_chat_template_volume(s) ELSE <<>>)
    \o (IF s.src_mmproj_path # <<>> /\ exists(files, s.src_mmproj_path)
        THEN _gen_mmproj_volume(s) ELSE <<>>)

_gen_volumes(s, files) ==
    Sp(4) \o <<"volumes", ":">>
    \o _gen_model_volume(s)
    \o (IF Truthy(s.args.rag) THEN _gen_rag_volume(s, files) ELSE <<>>)
    \o (IF s.src_chat_template_path # <<>> /\ exists(files, s.src_chat_template_path)
        THEN _gen_chat_template_volume(s) ELSE <<>>)
    \o (IF s.src_mmproj_path # <<>> /\ exists(files, s.src_mmproj_path)
        THEN _gen_mmproj_volume(s) ELSE <<>>)

\* the loop "for dev in device_list: devices_str += ..."
RECURSIVE device_entries(_)
device_entries(device_list) ==
    IF device_list = <<>> THEN <<>>
    ELSE <<NL>> \o Sp(6) \o <<"-", SP, "\"">> \o Head(device_list) \o <<":">>
         \o Head(device_list) \o <<"\"">> \o device_entries(Tail(device_list))

_gen_devices(files) ==
    LET device_list == (IF exists(files, DEV_DRI) THEN <<DEV_DRI>> ELSE <<>>)
                       \o (IF exists(files, DEV_KFD) THEN <<DEV_KFD>> ELSE <<>>)
                       \o (IF exists(files, DEV_ACCEL) THEN <<DEV_ACCEL>> ELSE <<>>)
    IN  IF device_list = <<>> THEN <<>>
        ELSE Sp(4) \o <<"devices", ":">> \o device_entries(device_list)

_gen_ports(s) ==
    LET port_arg == s.args.port IN
    IF ~Truthy(port_arg)
    THEN Sp(4) \o <<"ports", ":", NL>> \o Sp(6) \o <<"-", SP, "\"", "8080", ":", "8080", "\"">>
    ELSE LET p == split(port_arg[1], ":", 2)
             host_port == IF Len(p) > 1 THEN p[2] ELSE p[1]
             container_port == p[1]
         IN  Sp(4) \o <<"ports", ":", NL>> \o Sp(6)
             \o <<"-", SP, "\"">> \o host_port \o <<":">> \o container_port \o <<"\"">>

\* faulty variant: an override without "=" is skipped instead of raising
RECURSIVE apply_env_lenient(_, _)
apply_env_lenient(env_vars, overrides) ==
    IF overrides = <<>> THEN [raised |-> FALSE, env_vars |-> env_vars]
    ELSE LET kv == split(Head(overrides), "=", 1) IN
         IF Len(kv) # 2 THEN apply_env_lenient(env_vars, Tail(overrides))
         ELSE apply_env_lenient(DictSet(env_vars, kv[1], kv[2]), Tail(overrides))

\* the loop "for e in self.args.env: key, val = e.split("=", 1); env_vars[key] = val";
\* raised is TRUE where the unpacking raises ValueError
RECURSIVE apply_env(_, _)
apply_env(env_vars, overrides) ==
    IF overrides = <<>> THEN [raised |-> FALSE, env_vars |-> env_vars]
    ELSE LET kv == split(Head(overrides), "=", 1) IN
         IF Len(kv) # 2 THEN [raised |-> TRUE, env_vars |-> env_vars]
         ELSE apply_env(DictSet(env_vars, kv[1], kv[2]), Tail(overrides))

\* the loop "for k, v in env_vars.items(): env_spec += ..."
RECURSIVE env_entries(_)
env_entries(env_vars) ==
    IF env_vars = <<>> THEN <<>>
    ELSE <<NL>> \o Sp(6) \o <<"-", SP>> \o Head(env_vars)[1] \o <<"=">> \o Head(env_vars)[2]
         \o env_entries(Tail(env_vars))

\* Compose._gen_environment; result [raised, value, env_vars]
_gen_environment(s, host_env) ==
    LET applied == IF s.args.env # None /\ s.args.env[1] # <<>>
                   THEN apply_env(get_accel_env_vars(host_env), s.args.env[1])
                   ELSE [raised |-> FALSE, env_vars |-> get_accel_env_vars(host_env)]
    IN  [raised   |-> applied.raised,
         env_vars |-> applied.env_vars,
         value    |-> IF applied.raised \/ applied.env_vars = <<>> THEN <<>>
                      ELSE Sp(4) \o <<"environment", ":">> \o env_entries(applied.env_vars)]

_gen_gpu_deployment(s) ==
    IF ~Contains(s.image, CUDA) THEN <<>>
    ELSE Sp(4) \o <<"deploy", ":", NL>>
         \o Sp(6) \o <<"resources", ":", NL>>
         \o Sp(8) \o <<"reservations", ":", NL>>
         \o Sp(10) \o <<"devices", ":", NL>>
         \o Sp(12) \o <<"-", SP, "driver", ":", SP, "nvidia", NL>>
         \o Sp(14) \o <<"count", ":", SP, "all", NL>>
         \o Sp(14) \o <<"capabilities", ":", SP, "[gpu]">>

_gen_command(s) ==
    IF s.exec_args = <<>> THEN <<>>
    ELSE Sp(4) \o <<"command", ":", SP>> \o shlex_join(s.exec_args)

\* faulty variant: the devices section is rendered before the environment section
template_swapped(s, _version, volumes, ports, environment, devices, gpu_deploy, command) ==
    <<"#", SP, "Save", SP, "this", SP, "output", SP, "to", SP, "a", SP,
      "'", "docker-compose.yaml", "'", SP, "file", SP, "and", SP, "run", SP,
      "'", "docker", SP, "compose", SP, "up", "'", ".", NL>>
    \o <<"#", NL>>
    \o <<"#", SP, "Created", SP, "with", SP, "ramalama-">> \o _version \o <<NL>>
    \o <<NL>>
    \o <<"services", ":", NL>>
    \o Sp(2) \o s.model_name \o <<":", NL>>
    \o Sp(4) \o <<"container_name", ":", SP>> \o s.name \o <<NL>>
    \o Sp(4) \o <<"image", ":", SP>> \o s.image \o <<NL>>
    \o volumes \o <<NL>>
    \o ports \o <<NL>>
    \o devices \o <<NL>>
    \o environment \o <<NL>>
    \o gpu_deploy \o <<NL>>
    \o command \o <<NL>>
    \o Sp(4) \o <<"restart", ":", SP, "unless-stopped", NL>>

\* the f-string of generate()
template(s, _version, volumes, ports, environment, devices, gpu_deploy, command) ==
    <<"#", SP, "Save", SP, "this", SP, "output", SP, "to", SP, "a", SP,
      "'", "docker-compose.yaml", "'", SP, "file", SP, "and", SP, "run", SP,
      "'", "docker", SP, "compose", SP, "up", "'", ".", NL>>
    \o <<"#", NL>>
    \o <<"#", SP, "Created", SP, "with", SP, "ramalama-">> \o _version \o <<NL>>
    \o <<NL>>
    \o <<"services", ":", NL>>
    \o Sp(2) \o s.model_name \o <<":", NL>>
    \o Sp(4) \o <<"container_name", ":", SP>> \o s.name \o <<NL>>
    \o Sp(4) \o <<"image", ":", SP>> \o s.image \o <<NL>>
    \o volumes \o <<NL>>
    \o ports \o <<NL>>
    \o environment \o <<NL>>
    \o devices \o <<NL>>
    \o gpu_deploy \o <<NL>>
    \o command \o <<NL>>
    \o Sp(4) \o <<"restart", ":", SP, "unless-stopped", NL>>

\* faulty variant: [line for line in lines if line]
RECURSIVE nonblank_nonempty(_)
nonblank_nonempty(lines) ==
    IF lines = <<>> THEN <<>>
    ELSE (IF Head(lines) # <<>> THEN <<Head(lines)>> ELSE <<>>) \o nonblank_nonempty(Tail(lines))

\* [line for line in lines if line.strip()]
RECURSIVE nonblank(_)
nonblank(lines) ==
    IF lines = <<>> THEN <<>>
    ELSE (IF strip(Head(lines)) # <<>> THEN <<Head(lines)>> ELSE <<>>) \o nonblank(Tail(lines))

\* "\n".join(line for line in content.splitlines() if line.strip())
cleanup(content) == join(<<NL>>, nonblank(splitlines(content)))

\* genfile(name, content): the returned file; the progress line it prints
FILE_NAME == <<"docker-compose.yaml">>
genfile(name, content) == PlainFile(FILE_NAME, content)
genfile_print == <<"Generating", SP, "Docker", SP, "Compose", SP, "file", ":", SP>> \o FILE_NAME

----------------------------------------------------------------------------
(* Inputs *)

MaxPortLen == 3      \* tokens in a port string
MaxEnv == 2          \* entries in envOverrides
MaxBlankLen == 2     \* tokens in a value made of text, blanks and line breaks
MaxArgs == 2         \* tokens in execArgs
MaxTokLen == 2       \* characters in one execArgs token
MaxCalls == 3        \* invocations of generate() in one behaviour

Seqs(S, n) == UNION {[1..k -> S] : k \in 0..n}
Optional(S) == {None} \cup {Some(v) : v \in S}

MODEL_SRC == <<"/", "models", "/", "m.gguf">>
MODEL_DEST == <<"/", "mnt", "/", "models", "/", "model.file">>
CT_SRC == <<"/", "models", "/", "chat.jinja">>
CT_DEST == <<"/", "mnt", "/", "models", "/", "chat_template.file">>
MM_SRC == <<"/", "models", "/", "mmproj.gguf">>
MM_DEST == <<"/", "mnt", "/", "models", "/", "mmproj.file">>
RAG_PATH == <<"/", "data", "/", "rag">>
RAG_OCI == <<"oci", ":", "quay.io", "/", "org", "/", "corpus", ":", "v1">>
IMG == <<"i", "m", "g">>

BaseArgs == [name |-> None, image |-> IMG, rag |-> None, port |-> None, env |-> None]

BaseInput ==
    [model_name |-> <<"tiny">>, model_paths |-> <<MODEL_SRC, MODEL_DEST>>,
     chat_template_paths |-> None, mmproj_paths |-> None,
     args |-> BaseArgs, exec_args |-> <<>>, fs |-> {}, environ |-> <<>>]

\* port strings
PortInputs ==
    {[BaseInput EXCEPT !.args.port = p] :
        p \in Optional(Seqs({"9090", "8080", ":"}, MaxPortLen))}

\* host accelerator environments and --env overrides
Environs ==
    { <<>>,
      << <<(<<"CUDA_VISIBLE_DEVICES">>), <<"0">> >> >>,
      << <<(<<"CUDA_VISIBLE_DEVICES">>), <<"0">> >>, <<(<<"HIP_VISIBLE_DEVICES">>), <<"1">> >> >> }

EnvEntries ==
    { <<"K", "=", "1">>, <<"CUDA_VISIBLE_DEVICES", "=", "9">>, <<"K", "=", "a", "=", "b">>,
      <<"L", "=">>, <<"=", "v">>, <<"BAD">> }

EnvInputs ==
    {[BaseInput EXCEPT !.args.env = e, !.environ = h] :
        e \in Optional(Seqs(EnvEntries, MaxEnv)), h \in Environs}

\* volumes: corpus source, optional path pairs, and which host paths exist
VolInputs ==
    {[BaseInput EXCEPT !.args.rag = r, !.chat_template_paths = c, !.mmproj_paths = m,
                       !.model_paths = mp, !.fs = f] :
        r \in Optional({<<>>, RAG_OCI, OCI_TAG, RAG_PATH}),
        c \in Optional({<<CT_SRC, CT_DEST>>}),
        m \in Optional({<<MM_SRC, MM_DEST>>}),
        mp \in {<<MODEL_SRC, MODEL_DEST>>, <<OCI_URI \o MODEL_SRC, MODEL_DEST>>},
        f \in SUBSET {RAG_OCI, RAG_PATH, CT_SRC, MM_SRC}}

\* devices, image reference, service name, command
Images ==
    { IMG, CUDA, <<"l", "-">> \o CUDA \o <<":", "1">>, <<"c", "u", "d">>, <<"c", "u", "-", "d", "a">> }

ExecSamples ==
    { <<>>,
      << <<"python">>, <<"-m">>, <<"server">>, <<"--flag">>, <<"value", SP, "with", SP, "spaces">> >> }

DevInputs ==
    {[BaseInput EXCEPT !.args.image = i, !.args.name = n, !.exec_args = x, !.fs = f] :
        i \in Images, n \in Optional({<<>>, <<"svc">>}), x \in ExecSamples,
        f \in SUBSET {DEV_DRI, DEV_KFD, DEV_ACCEL}}

\* values that contain blanks and line breaks, in every place a value is rendered
BlankTexts == Seqs({"a", SP, NL}, MaxBlankLen)

BlankInputs ==
    {[model_name |-> v, model_paths |-> <<w, v>>,
      chat_template_paths |-> Some(<<<<"c">> \o v, w>>), mmproj_paths |-> None,
      args |-> [name |-> Some(w), image |-> v, rag |-> Some(OCI_TAG \o w),
                port |-> Some(v), env |-> Some(<< <<"K", "=">> \o w >>)],
      exec_args |-> <<v, w>>, fs |-> {<<"c">> \o v},
      environ |-> << <<(<<"H">>), v>> >>] :
        v \in BlankTexts, w \in BlankTexts}

Inputs == PortInputs \cup EnvInputs \cup VolInputs \cup DevInputs \cup BlankInputs

\* launch commands: every token list over a small alphabet
CmdInputs ==
    {[BaseInput EXCEPT !.exec_args = x] :
        x \in Seqs(Seqs({"a", SP, NL, "'"}, MaxTokLen), MaxArgs)}

\* env values a later Compose instance may be constructed with
EnvAlternatives == {None, Some(<< <<"K", "=", "1">> >>)}

----------------------------------------------------------------------------
(* State machine *)

InitFrom(inputs) ==
    \E inp \in inputs :
        /\ self = Compose(inp.model_name, inp.model_paths, inp.chat_template_paths,
                          inp.mmproj_paths, inp.args, inp.exec_args)
        /\ fs = inp.fs
        /\ environ = inp.environ
        /\ pc = "volumes"
        /\ volumes_string = <<>> /\ ports_string = <<>> /\ environment_string = <<>>
        /\ devices_string = <<>> /\ gpu_deploy_string = <<>> /\ command_string = <<>>
        /\ stdout = <<>>
        /\ ret = None
        /\ first = None
        /\ calls = 1

Init == InitFrom(Inputs)

InitCmd == InitFrom(CmdInputs)

\* volumes_string = self._gen_volumes()
GenVolumes ==
    /\ pc = "volumes"
    /\ volumes_string' = _gen_volumes(self, fs)
    /\ pc' = "ports"
    /\ UNCHANGED <<self, fs, environ, ports_string, environment_string, devices_string,
                   gpu_deploy_string, command_string, stdout, ret, first, calls>>

\* ports_string = self._gen_ports()
GenPorts ==
    /\ pc = "ports"
    /\ ports_string' = _gen_ports(self)
    /\ pc' = "environment"
    /\ UNCHANGED <<self, fs, environ, volumes_string, environment_string, devices_string,
                   gpu_deploy_string, command_string, stdout, ret, first, calls>>

\* faulty variant: the overrides are written into the host's mapping itself
GenEnvironment_leak ==
    /\ pc = "environment"
    /\ environment_string' = _gen_environment(self, environ).value
    /\ environ' = _gen_environment(self, environ).env_vars
    /\ pc' = IF _gen_environment(self, environ).raised THEN "error" ELSE "devices"
    /\ UNCHANGED <<self, fs, volumes_string, ports_string, devices_string,
                   gpu_deploy_string, command_string, stdout, ret, first, calls>>

\* environment_string = self._gen_environment(); a ValueError leaves generate()
GenEnvironment ==
    /\ pc = "environment"
    /\ environment_string' = _gen_environment(self, environ).value
    /\ pc' = IF _gen_environment(self, environ).raised THEN "error" ELSE "devices"
    /\ UNCHANGED <<self, fs, environ, volumes_string, ports_string, devices_string,
                   gpu_deploy_string, command_string, stdout, ret, first, calls>>

\* devices_string = self._gen_devices()
GenDevices ==
    /\ pc = "devices"
    /\ devices_string' = _gen_devices(fs)
    /\ pc' = "deploy"
    /\ UNCHANGED <<self, fs, environ, volumes_string, ports_string, environment_string,
                   gpu_deploy_string, command_string, stdout, ret, first, calls>>

\* gpu_deploy_string = self._gen_gpu_deployment()
GenGpuDeployment ==
    /\ pc = "deploy"
    /\ gpu_deploy_string' = _gen_gpu_deployment(self)
    /\ pc' = "command"
    /\ UNCHANGED <<self, fs, environ, volumes_string, ports_string, environment_string,
                   devices_string, command_string, stdout, ret, first, calls>>

\* command_string = self._gen_command()
GenCommand ==
    /\ pc = "command"
    /\ command_string' = _gen_command(self)
    /\ pc' = "assemble"
    /\ UNCHANGED <<self, fs, environ, volumes_string, ports_string, environment_string,
                   devices_string, gpu_deploy_string, stdout, ret, first, calls>>

\* content = f"""..."""; content = "\n".join(...); return genfile(self.name, content)
Assemble ==
    /\ pc = "assemble"
    /\ LET content == cleanup(template(self, version, volumes_string, ports_string,
                                       environment_string, devices_string,
                                       gpu_deploy_string, command_string))
       IN  /\ stdout' = Append(stdout, genfile_print)
           /\ ret' = Some(genfile(self.name, content))
           /\ first' = IF first = None THEN Some([self |-> self, content |-> content])
                       ELSE first
    /\ pc' = "done"
    /\ UNCHANGED <<self, fs, environ, locals, calls>>

\* the caller invokes generate() again on the same Compose instance
Generate ==
    /\ pc \in {"done", "error"}
    /\ calls < MaxCalls
    /\ calls' = calls + 1
    /\ pc' = "volumes"
    /\ volumes_string' = <<>> /\ ports_string' = <<>> /\ environment_string' = <<>>
    /\ devices_string' = <<>> /\ gpu_deploy_string' = <<>> /\ command_string' = <<>>
    /\ stdout' = <<>>
    /\ ret' = None
    /\ UNCHANGED <<self, fs, environ, first>>

\* the caller constructs another Compose instance, whose configuration
\* differs at most in its env overrides, and invokes generate() on it
Construct ==
    /\ pc \in {"done", "error"}
    /\ calls < MaxCalls
    /\ calls' = calls + 1
    /\ \E e \in EnvAlternatives : self' = [self EXCEPT !.args.env = e]
    /\ pc' = "volumes"
    /\ volumes_string' = <<>> /\ ports_string' = <<>> /\ environment_string' = <<>>
    /\ devices_string' = <<>> /\ gpu_deploy_string' = <<>> /\ command_string' = <<>>
    /\ stdout' = <<>>
    /\ ret' = None
    /\ UNCHANGED <<fs, environ, first>>

Next ==
    \/ GenVolumes
    \/ GenPorts
    \/ GenEnvironment
    \/ GenDevices
    \/ GenGpuDeployment
    \/ GenCommand
    \/ Assemble
    \/ Generate
    \/ Construct

Spec == Init /\ [][Next]_vars

SpecCmd == InitCmd /\ [][Next]_vars

----------------------------------------------------------------------------
(* Properties *)

PortsBuilt == pc \in {"environment", "devices", "deploy", "command", "assemble", "done", "error"}
VolumesBuilt == pc \in {"ports"} \/ PortsBuilt
EnvBuilt == pc \in {"devices", "deploy", "command", "assemble", "done"}

\* the lines of a text: the pieces between line breaks
LinesOf(text) == split(text, NL, -1)

\* a line that is empty or holds only white space
Blank(line) == \A j \in 1..Len(line) : IsSpace(line[j])

PortSection(host, container) ==
    Sp(4) \o <<"ports", ":", NL>> \o Sp(6) \o <<"-", SP, "\"">> \o host \o <<":">> \o container \o <<"\"">>

ClaimedPorts(port) ==
    IF port = None THEN PortSection(<<"8080">>, <<"8080">>)
    ELSE IF Find(port[1], ":") = 0 THEN PortSection(port[1], port[1])
    ELSE PortSection(SubSeq(port[1], 1, Find(port[1], ":") - 1),
                     SubSeq(port[1], Find(port[1], ":") + 1, Len(port[1])))

\* C1: once the port section is built it is exactly one mapping "<host>:<container>":
\* 8080:8080 when the port is unset, N:N for a bare number N, and for "H:C"
\* (split on the first colon) host port H mapped to container port C.
C1_PortMapping ==
    (PortsBuilt /\ self.args.port # Some(<<>>)) => ports_string = ClaimedPorts(self.args.port)

\* C2: when the port is explicitly set to the empty string, generate raises an
\* error and returns no manifest instead of falling back to 8080:8080.
C2_EmptyPortRaises ==
    (PortsBuilt /\ self.args.port = Some(<<>>)) => (pc = "error" /\ ret = None)

BadEnv(s) ==
    s.args.env # None /\ \E i \in 1..Len(s.args.env[1]) : Find(s.args.env[1][i], "=") = 0

\* C3: generation is atomic on error: with an env override that lacks "=" generate
\* raises (it never gets past the environment section), on the error path nothing
\* is returned and nothing is printed, and the progress line is printed only
\* when all sections were built and the manifest is returned.
C3_AtomicOnError ==
    /\ BadEnv(self) => pc \in {"volumes", "ports", "environment", "error"}
    /\ pc = "error" => (ret = None /\ stdout = <<>>)
    /\ stdout # <<>> => (pc = "done" /\ ret # None /\ stdout = <<genfile_print>>)
    /\ ret # None => (pc = "done" /\ ret[1].filename = FILE_NAME)

C3_Witness == pc = "error" /\ BadEnv(self) /\ Len(self.args.env[1]) > 1

\* C4: no line of the returned manifest is empty or whitespace-only, whatever
\* sections are omitted and whatever line breaks and blanks the values hold.
C4_NoBlankLine ==
    pc = "done" => LET lines == LinesOf(ret[1].content)
                   IN  \A i \in 1..Len(lines) : ~Blank(lines[i])

C4_Witness ==
    /\ pc = "done"
    /\ self.name = <<NL, SP>>
    /\ self.model_name = <<NL, NL>>
    /\ devices_string = <<>> /\ gpu_deploy_string = <<>>

MountEntry(src, dest) ==
    <<NL>> \o Sp(6) \o <<"-", SP, "\"">> \o src \o <<":">> \o dest \o <<":", "ro", "\"">>

EntryStart == <<NL>> \o Sp(6) \o <<"-", SP>>

\* number of list entries in a section
EntryCount(text) ==
    LET lines == LinesOf(text)
    IN  Cardinality({i \in 1..Len(lines) : startswith(lines[i], Sp(6) \o <<"-", SP>>)})

VolumesHead(s) == Sp(4) \o <<"volumes", ":">> \o MountEntry(s.src_model_path, s.dest_model_path)

ChatSupplied(s) == s.src_chat_template_path # <<>> \/ s.dest_chat_template_path # <<>>
MmprojSupplied(s) == s.src_mmproj_path # <<>> \/ s.dest_mmproj_path # <<>>

VolumesTail(s, files) ==
    (IF ChatSupplied(s) /\ s.src_chat_template_path \in files
     THEN MountEntry(s.src_chat_template_path, s.dest_chat_template_path) ELSE <<>>)
    \o (IF MmprojSupplied(s) /\ s.src_mmproj_path \in files
        THEN MountEntry(s.src_mmproj_path, s.dest_mmproj_path) ELSE <<>>)

\* what stands between the model mount and the chat-template mount
CorpusMount(s, files, text) ==
    SubSeq(text, Len(VolumesHead(s)) + 1, Len(text) - Len(VolumesTail(s, files)))

\* C5: the volumes section is the heading, the model mount source:destination:ro,
\* then at most one corpus mount, then the chat-template mount iff a pair was
\* supplied and its host path exists, then the projector mount under the same
\* condition; with only a model path set it has exactly one entry.
C5_VolumesSection ==
    VolumesBuilt =>
        /\ Len(volumes_string) >= Len(VolumesHead(self)) + Len(VolumesTail(self, fs))
        /\ volumes_string = VolumesHead(self) \o CorpusMount(self, fs, volumes_string)
                            \o VolumesTail(self, fs)
        /\ \/ CorpusMount(self, fs, volumes_string) = <<>>
           \/ /\ startswith(CorpusMount(self, fs, volumes_string), EntryStart)
              /\ EntryCount(CorpusMount(self, fs, volumes_string)) = 1
        /\ (self.args.rag = None /\ ~ChatSupplied(self) /\ ~MmprojSupplied(self))
              => EntryCount(volumes_string) = 1

C5_Witness ==
    /\ VolumesBuilt
    /\ EntryCount(volumes_string) = 4
    /\ ChatSupplied(self) /\ MmprojSupplied(self)

ImageVolume(ref) ==
    <<NL>> \o Sp(6) \o <<"-", SP, "type", ":", SP, "image">>
    \o <<NL>> \o Sp(8) \o <<"source", ":", SP>> \o ref
    \o <<NL>> \o Sp(8) \o <<"target", ":", SP>> \o RAG_DIR
    \o <<NL>> \o Sp(8) \o <<"image", ":">>
    \o <<NL>> \o Sp(10) \o <<"readonly", ":", SP, "true">>

IsOci(rag) == rag # None /\ Len(rag[1]) >= 2 /\ rag[1][1] = "oci" /\ rag[1][2] = ":"

\* C6: the corpus mount has one of three shapes: for ragSource "oci:<ref>" the
\* long-form read-only image volume of exactly <ref> at the fixed target (whether
\* or not a host path of that name exists), for an existing host path the
\* short-form path:target:ro mount, and nothing otherwise.
C6_CorpusMount ==
    VolumesBuilt =>
        CorpusMount(self, fs, volumes_string) =
            IF IsOci(self.args.rag)
            THEN ImageVolume(SubSeq(self.args.rag[1], 3, Len(self.args.rag[1])))
            ELSE IF self.args.rag # None /\ self.args.rag[1] \in fs
            THEN MountEntry(self.args.rag[1], RAG_DIR)
            ELSE <<>>

C6_Witness ==
    /\ VolumesBuilt
    /\ self.args.rag = Some(RAG_OCI) /\ RAG_OCI \in fs
    /\ self.src_chat_template_path \in fs

OvKey(e) == SubSeq(e, 1, Find(e, "=") - 1)
OvVal(e) == SubSeq(e, Find(e, "=") + 1, Len(e))
Overrides(s) == IF s.args.env = None THEN <<>> ELSE s.args.env[1]

\* the keys of the merged mapping
EnvKeys(host_env, ovs) ==
    {host_env[i][1] : i \in 1..Len(host_env)} \cup {OvKey(ovs[j]) : j \in 1..Len(ovs)}

\* the value of key k: that of the last override naming k, else the host's
EnvValue(host_env, ovs, k) ==
    IF \E j \in 1..Len(ovs) : OvKey(ovs[j]) = k
    THEN OvVal(ovs[CHOOSE j \in 1..Len(ovs) :
                     OvKey(ovs[j]) = k /\ \A j2 \in (j + 1)..Len(ovs) : OvKey(ovs[j2]) # k])
    ELSE host_env[CHOOSE i \in 1..Len(host_env) : host_env[i][1] = k][2]

\* the position of key k: host keys keep their place, new keys follow in the
\* order in which the overrides first name them
EnvRank(host_env, ovs, k) ==
    IF \E i \in 1..Len(host_env) : host_env[i][1] = k
    THEN CHOOSE i \in 1..Len(host_env) : host_env[i][1] = k
    ELSE Len(host_env) + (CHOOSE j \in 1..Len(ovs) :
                              OvKey(ovs[j]) = k /\ \A j2 \in 1..(j - 1) : OvKey(ovs[j2]) # k)

EnvOrder(host_env, ovs) ==
    LET K == EnvKeys(host_env, ovs)
    IN  CHOOSE f \in [1..Cardinality(K) -> K] :
            \A i, j \in 1..Cardinality(K) :
                i < j => EnvRank(host_env, ovs, f[i]) < EnvRank(host_env, ovs, f[j])

RECURSIVE EnvLines(_, _, _, _)
EnvLines(host_env, ovs, order, i) ==
    IF i > Len(order) THEN <<>>
    ELSE <<NL>> \o Sp(6) \o <<"-", SP>> \o order[i] \o <<"=">> \o EnvValue(host_env, ovs, order[i])
         \o EnvLines(host_env, ovs, order, i + 1)

\* C8: the environment section is the accelerator mapping with the overrides
\* applied in order, each split once on the first "=": an override of a present
\* key replaces its value in place (one entry per key, last override wins), a
\* new key is appended; the section is omitted iff the mapping is empty, else it
\* is the heading and one KEY=VALUE entry per key in iteration order.
C8_EnvironmentSection ==
    EnvBuilt =>
        LET ovs == Overrides(self)
        IN  /\ environment_string = <<>> <=> EnvKeys(environ, ovs) = {}
            /\ EnvKeys(environ, ovs) # {} =>
                  /\ environment_string =
                        Sp(4) \o <<"environment", ":">>
                        \o EnvLines(environ, ovs, EnvOrder(environ, ovs), 1)
                  /\ EntryCount(environment_string) = Cardinality(EnvKeys(environ, ovs))

C8_Witness ==
    /\ EnvBuilt
    /\ Len(environ) = 2
    /\ self.args.env = Some(<< <<"CUDA_VISIBLE_DEVICES", "=", "9">>, <<"K", "=", "a", "=", "b">> >>)

HasCommand(content) == \E i \in 1..Len(content) : content[i] = "command"

RestartLine == Sp(4) \o <<"restart", ":", SP, "unless-stopped">>

\* the command string of the manifest: what follows "command: " up to the
\* restart line
CommandOf(content) ==
    SubSeq(content, Find(content, "command") + 3, Len(content) - Len(<<NL>> \o RestartLine))

\* C9: the manifest has no command field iff execArgs is empty; otherwise the
\* command string of the manifest, split by shell-word rules, is exactly the
\* execArgs token list.
C9_CommandRoundTrip ==
    pc = "done" =>
        /\ self.exec_args = <<>> <=> ~HasCommand(ret[1].content)
        /\ self.exec_args # <<>> =>
              shlex_split(CommandOf(ret[1].content)) = [ok |-> TRUE, tokens |-> self.exec_args]

SectionKeys ==
    {"container_name", "image", "volumes", "ports", "environment", "devices", "deploy",
     "command", "restart"}

IsKeyLine(line) ==
    Len(line) >= 6 /\ SubSeq(line, 1, 4) = Sp(4) /\ line[5] \in SectionKeys /\ line[6] = ":"

\* the keys of the service block, in the order of their lines
RECURSIVE KeysOf(_)
KeysOf(lines) ==
    IF lines = <<>> THEN <<>>
    ELSE (IF IsKeyLine(Head(lines)) THEN <<Head(lines)[5]>> ELSE <<>>) \o KeysOf(Tail(lines))

KeyIndex(lines, key) == CHOOSE i \in 1..Len(lines) : IsKeyLine(lines[i]) /\ lines[i][5] = key

\* the non-blank lines of a text
ShownLines(text) ==
    LET lines == LinesOf(text)
    IN  SelectSeq(lines, LAMBDA l : ~Blank(l))

AnyDevice(files) == files \cap {DEV_DRI, DEV_KFD, DEV_ACCEL} # {}

HasCuda(image) ==
    \E i \in 1..(Len(image) - 3) :
        image[i] = "c" /\ image[i + 1] = "u" /\ image[i + 2] = "d" /\ image[i + 3] = "a"

\* C10: the service block, keyed by the model name, lists container_name (the
\* explicit name if one is given, else ramalama-<modelName>) and image first,
\* then volumes, ports, and in this order those of environment, devices, deploy,
\* command that are present, and restart: unless-stopped as last line; devices
\* is present iff a probed device path exists, deploy iff the image reference
\* contains "cuda".
C10_ServiceBlock ==
    pc = "done" =>
        LET lines == LinesOf(ret[1].content)
            keys == KeysOf(lines)
            name == IF self.args.name # None /\ self.args.name[1] # <<>>
                    THEN self.args.name[1] ELSE <<"ramalama-">> \o self.model_name
            cn == KeyIndex(lines, "container_name")
            im == KeyIndex(lines, "image")
        IN  /\ \E present \in SUBSET {"environment", "devices", "deploy", "command"} :
                  /\ keys = <<"container_name", "image", "volumes", "ports">>
                            \o SelectSeq(<<"environment", "devices", "deploy", "command">>,
                                         LAMBDA k : k \in present)
                            \o <<"restart">>
                  /\ "devices" \in present <=> AnyDevice(fs)
                  /\ "deploy" \in present <=> HasCuda(self.image)
            /\ lines[Len(lines)] = RestartLine
            /\ lines[4] = <<"services", ":">>
            /\ SubSeq(lines, 5, cn - 1) = ShownLines(Sp(2) \o self.model_name \o <<":">>)
            /\ SubSeq(lines, cn, im - 1) = ShownLines(Sp(4) \o <<"container_name", ":", SP>> \o name)

C10_Witness ==
    /\ pc = "done"
    /\ environment_string # <<>> /\ devices_string # <<>>
    /\ gpu_deploy_string # <<>> /\ command_string # <<>>
    /\ self.args.name = Some(<<"svc">>)

====
